---- MODULE Spec2Model ----
(***************************************************************************)
(* A model of up8-ticket (src/src/index.js): master-ticket generation      *)
(* (gen_ticket_simple, gen_ticket_more, gen_ticket_drbg) and k-of-n        *)
(* sharding (shard, combine).                                              *)
(*                                                                         *)
(* Representation.  A hex string is a sequence of nibbles 0..15.  A @q     *)
(* string is represented by the byte sequence it spells (two syllables per *)
(* byte pair), so ob.hex2patq and ob.patq2hex are conversions between the  *)
(* two and not the identity: an odd-length hex string gains a leading zero *)
(* nibble on the way through @q.  A Buffer is a sequence of bytes 0..255.  *)
(* A JavaScript value passed as 'addl' is a record [kind, bytes] so that   *)
(* Buffer.isBuffer can tell a Buffer from a plain Array or from undefined. *)
(*                                                                         *)
(* The packages index.js requires (secrets.js-grempe, urbit-ob,            *)
(* more-entropy, hmac-drbg) are not part of src/; the operators that stand *)
(* for them follow the description of those components in the design       *)
(* document and are marked as such where they are defined.                 *)
(***************************************************************************)
EXTENDS Integers, Sequences, FiniteSets, TLC

(***************************************************************************)
(* Bounds of the model.                                                    *)
(***************************************************************************)
\* largest number of shards n handed to shard
MaxN == 3
\* longest ticket, in bytes, handed to shard
MaxLen == 2
\* longest caller-supplied addl buffer, in bytes
MaxAddlLen == 3
\* how many samples beyond the required ones the collector may return
MaxExtra == 1

(***************************************************************************)
(* Program constants.                                                      *)
(***************************************************************************)
GALOIS_BITSIZE == 8
\* gen_ticket_drbg: "desired bitlength of ticket (minimum 192)"
DRBG_MIN_BITS == 192

Byte == 0..(2 ^ 8 - 1)

Max(a, b) == IF a >= b THEN a ELSE b
Min(a, b) == IF a <= b THEN a ELSE b

(***************************************************************************)
(* Bitwise exclusive or of two naturals below 2^w.                         *)
(***************************************************************************)
RECURSIVE XorBits(_, _, _)
XorBits(a, b, w) ==
  IF w = 0 THEN 0
  ELSE (((a % 2) + (b % 2)) % 2) + 2 * XorBits(a \div 2, b \div 2, w - 1)

\* x ^ y on bytes, tabulated once
XorTable == [a \in Byte |-> [b \in Byte |-> XorBits(a, b, 8)]]

\* index.js: const xor = (x, y) => x ^ y
xor(x, y) == XorTable[x][y]

(***************************************************************************)
(* Hex strings and Buffers.                                                *)
(***************************************************************************)
\* buf.toString('hex'): two nibbles per byte, high nibble first
toHex(buf) ==
  [i \in 1..(2 * Len(buf)) |->
     IF i % 2 = 1 THEN buf[(i + 1) \div 2] \div 16 ELSE buf[i \div 2] % 16]

\* Buffer.from(hex, 'hex') for an even-length hex string
fromHex(hex) ==
  [i \in 1..(Len(hex) \div 2) |-> 16 * hex[2 * i - 1] + hex[2 * i]]

\* ob.hex2patq: an odd-length hex string is left-padded with one zero
\* nibble, then every byte pair is spelled out; leading zero bytes are kept
hex2patq(hex) ==
  IF Len(hex) % 2 = 1 THEN fromHex(<<0>> \o hex) ELSE fromHex(hex)

\* ob.patq2hex: two hex digits per syllable
patq2hex(patq) == toHex(patq)

\* ob.isValidPatq: every syllable is one of the 256 prefixes / suffixes
isValidPatq(patq) == \A i \in 1..Len(patq) : patq[i] \in Byte

(***************************************************************************)
(* GF(2^8) as secrets.init(GALOIS_BITSIZE) builds it: exponent and         *)
(* logarithm tables over the primitive polynomial x^8+x^4+x^3+x^2+1.       *)
(***************************************************************************)
FieldSize == 2 ^ GALOIS_BITSIZE
MaxShares == FieldSize - 1
PrimitivePoly == 29

RECURSIVE ExpList(_)
ExpList(i) ==
  IF i = 0 THEN <<1>>
  ELSE LET prev == ExpList(i - 1)
           d    == 2 * prev[i]
       IN  Append(prev, IF d >= FieldSize
                        THEN XorBits(d, PrimitivePoly, GALOIS_BITSIZE + 1) % FieldSize
                        ELSE d)

\* exps[i] for i in 0..254 (held at index i+1)
Exps == ExpList(MaxShares - 1)
\* logs[x] for x in 1..255
Logs == [x \in 1..MaxShares |-> CHOOSE i \in 0..(MaxShares - 1) : Exps[i + 1] = x]

GFMul(a, b) ==
  IF a = 0 \/ b = 0 THEN 0 ELSE Exps[((Logs[a] + Logs[b]) % MaxShares) + 1]

GFDiv(a, b) ==
  IF a = 0 THEN 0 ELSE Exps[((Logs[a] - Logs[b] + MaxShares) % MaxShares) + 1]

\* evaluate the polynomial with coefficients coeffs (constant term first)
\* at x, by Horner's rule
RECURSIVE hornerFrom(_, _, _)
hornerFrom(x, coeffs, i) ==
  IF i > Len(coeffs) THEN 0
  ELSE xor(GFMul(x, hornerFrom(x, coeffs, i + 1)), coeffs[i])

horner(x, coeffs) == hornerFrom(x, coeffs, 1)

(***************************************************************************)
(* JavaScript values and the lodash helpers index.js uses.                 *)
(***************************************************************************)
\* the value undefined (an omitted 'addl')
Undefined == [kind |-> "undefined", bytes |-> <<>>]
Buffer(bytes) == [kind |-> "Buffer", bytes |-> bytes]
Array(elems) == [kind |-> "Array", bytes |-> elems]

\* Buffer.isBuffer(v): false for undefined and for a plain Array
isBuffer(v) == v.kind = "Buffer"

\* zipWith(a, b, xor): as long as the longer argument; past the end of the
\* shorter one the missing element is undefined, and undefined ^ y is y
zipWith(a, b) ==
  [i \in 1..Max(Len(a), Len(b)) |->
     IF i <= Len(a) /\ i <= Len(b) THEN xor(a[i], b[i])
     ELSE IF i <= Len(a) THEN xor(a[i], 0) ELSE xor(0, b[i])]

\* buf.slice(0, m)
slice(buf, m) == SubSeq(buf, 1, Min(m, Len(buf)))

\* chunk(result, 2): consecutive pairs, the last one short when the length
\* is odd
chunk(arr) ==
  [i \in 1..((Len(arr) + 1) \div 2) |->
     IF 2 * i <= Len(arr) THEN <<arr[2 * i - 1], arr[2 * i]>>
     ELSE <<arr[2 * i - 1]>>]

\* flatMap(entropy, arr => arr[0] ^ arr[1])
foldPairs(pairs) ==
  [i \in 1..Len(pairs) |->
     IF Len(pairs[i]) = 2 THEN xor(pairs[i][1], pairs[i][2])
     ELSE xor(pairs[i][1], 0)]

\* const nbytes = nbits / 8
nbytesAsBits(nbits) == nbits
nbytesOf(nbits) == nbits \div 8

\* Buffer.from(zipWith(buf, addl, xor)).slice(0, nbytes)
mixNoSlice(buf, addl, nbytes) == zipWith(buf, addl)
mixShortest(buf, addl, nbytes) == slice(zipWith(buf, addl), Min(Len(buf), Len(addl)))
mix(buf, addl, nbytes) == slice(zipWith(buf, addl), nbytes)

\* gen_ticket_simple(nbits, addl), entropy being what crypto.rng(nbytes)
\* returned: the bytes the ticket encodes, and the @q ticket
simple_bytes(nbits, addl, entropy) ==
  IF isBuffer(addl) THEN mix(entropy, addl.bytes, nbytesOf(nbits)) ELSE entropy

gen_ticket_simple(nbits, addl, entropy) ==
  hex2patq(toHex(simple_bytes(nbits, addl, entropy)))

(***************************************************************************)
(* Promises: settled by the first resolve or reject; later calls are       *)
(* ignored.  'settles' counts the calls that took effect, 'calls' all of   *)
(* them.                                                                   *)
(***************************************************************************)
NoPromise ==
  [state |-> "none", value |-> <<>>, error |-> "", settles |-> 0, calls |-> 0]
Pending == [NoPromise EXCEPT !.state = "pending"]

resolve(p, v) ==
  IF p.state = "pending"
  THEN [p EXCEPT !.state = "fulfilled", !.value = v,
                 !.settles = @ + 1, !.calls = @ + 1]
  ELSE [p EXCEPT !.calls = @ + 1]

rejectAlways(p, e) ==
  [p EXCEPT !.state = "rejected", !.value = <<>>, !.error = e,
            !.settles = @ + 1, !.calls = @ + 1]
reject(p, e) ==
  IF p.state = "pending"
  THEN [p EXCEPT !.state = "rejected", !.error = e,
                 !.settles = @ + 1, !.calls = @ + 1]
  ELSE [p EXCEPT !.calls = @ + 1]

(***************************************************************************)
(* The auxiliary collector (more-entropy) and the HMAC-DRBG, as the design *)
(* document describes them.                                                *)
(***************************************************************************)
\* the collector returns at least two samples per requested byte
SamplesNeeded(nbits) == 2 * nbytesOf(nbits)

\* the DRBG refuses entropy shorter than its minimum
DRBGSeedOk(entropy) == 8 * Len(entropy) >= DRBG_MIN_BITS

RECURSIVE SumSeq(_)
SumSeq(q) == IF Len(q) = 0 THEN 0 ELSE Head(q) + SumSeq(Tail(q))

\* d.generate(nbytes): nbytes bytes, a deterministic function of the seed
\* material (the HMAC construction itself is not modelled)
DRBGGenerate(entropy, nonce, pers, nbytes) ==
  [i \in 1..nbytes |->
     xor(entropy[((i - 1) % Len(entropy)) + 1],
         (SumSeq(nonce) + SumSeq(pers) + i) % 256)]

(***************************************************************************)
(* Shamir sharing over GF(2^8) (secrets.js-grempe), as the design document *)
(* describes it: one polynomial of degree k-1 per byte of the secret,      *)
(* evaluated at x = 1..n; reconstruction by Lagrange interpolation at 0.   *)
(* A share is the hex string made of the field size digit, the two-digit   *)
(* share index and the share's bytes: an odd number of hex digits.         *)
(***************************************************************************)
\* the values the sharer's random coefficients are drawn from
RngValuesNonzero == 1..MaxShares
RngValues == Byte

\* the share of one secret byte at index x, and the y values of its n
\* shares; coefs are the k-1 higher coefficients
shareAt(secretByte, x, coefs) == horner(x, <<secretByte>> \o coefs)

getShares(secretByte, n0, coefs) ==
  [i \in 1..n0 |-> shareAt(secretByte, i, coefs)]

shareHex(id, data) ==
  <<GALOIS_BITSIZE, id \div 16, id % 16>> \o toHex(data)

\* secrets.share(hex, n, k), coefs[j] being the k-1 coefficients drawn for
\* byte j of the secret
secrets_share(hex, n0, k0, coefs) ==
  LET secret == fromHex(hex)
      ys     == [j \in 1..Len(secret) |->
                   getShares(secret[j], n0, SubSeq(coefs[j], 1, k0 - 1))]
  IN  [i \in 1..n0 |-> shareHex(i, [j \in 1..Len(secret) |-> ys[j][i]])]

\* a share string names the field this module was initialised for, and an
\* index in 1..255
shareOk(h) ==
  /\ Len(h) >= 3
  /\ Len(h) % 2 = 1
  /\ h[1] = GALOIS_BITSIZE
  /\ 16 * h[2] + h[3] \in 1..MaxShares

shareId(h) == 16 * h[2] + h[3]
shareData(h) == fromHex(SubSeq(h, 4, Len(h)))

\* lagrange(0, x, y): the value at 0 of the polynomial through the points
RECURSIVE BasisAtZero(_, _, _)
BasisAtZero(xs, i, j) ==
  IF j > Len(xs) THEN 1
  ELSE IF j = i THEN BasisAtZero(xs, i, j + 1)
  ELSE GFMul(GFDiv(xs[j], xor(xs[j], xs[i])), BasisAtZero(xs, i, j + 1))

RECURSIVE LagrangeSum(_, _, _)
LagrangeSum(xs, ys, i) ==
  IF i > Len(xs) THEN 0
  ELSE xor(GFMul(ys[i], BasisAtZero(xs, i, 1)), LagrangeSum(xs, ys, i + 1))

lagrange(xs, ys) == LagrangeSum(xs, ys, 1)

\* secrets.combine(hexshards): the recovered secret as a hex string
secrets_combine(hexshards) ==
  LET xs  == [i \in 1..Len(hexshards) |-> shareId(hexshards[i])]
      len == Len(shareData(hexshards[1]))
  IN  toHex([j \in 1..len |->
               lagrange(xs, [i \in 1..Len(hexshards) |-> shareData(hexshards[i])[j]])])

(***************************************************************************)
(* index.js: unpad, shard, combine.  A call either returns a value or      *)
(* throws; 'interpolated' tells whether secrets.combine was reached and    *)
(* 'hexshards' what it was given.                                          *)
(***************************************************************************)
\* unpad(str): throws unless the first digit is 0
unpadNoCheck(str) ==
  [ok |-> TRUE, str |-> IF Len(str) = 0 THEN <<>> ELSE Tail(str)]
unpadNoStrip(str) ==
  IF Len(str) > 0 /\ str[1] = 0
  THEN [ok |-> TRUE, str |-> str]
  ELSE [ok |-> FALSE, str |-> <<>>]
unpad(str) ==
  IF Len(str) > 0 /\ str[1] = 0
  THEN [ok |-> TRUE, str |-> Tail(str)]
  ELSE [ok |-> FALSE, str |-> <<>>]

Threw(e) ==
  [status |-> "error", error |-> e, value |-> <<>>,
   interpolated |-> FALSE, hexshards |-> <<>>]

\* shard(ticket, n, k)
shard(ticket, n0, k0, coefs) ==
  IF ~isValidPatq(ticket)
  THEN [status |-> "error", error |-> "input is not @q-encoded", value |-> <<>>]
  ELSE LET hex    == patq2hex(ticket)
           shards == secrets_share(hex, n0, k0, coefs)
       IN  [status |-> "ok", error |-> "",
            value |-> [i \in 1..n0 |-> hex2patq(shards[i])]]

\* combine(shards)
combineNoUnpad(shards) ==
  LET hexes == [i \in 1..Len(shards) |-> patq2hex(shards[i])]
  IN  IF \E i \in 1..Len(hexes) : ~shareOk(hexes[i])
      THEN Threw("Invalid share")
      ELSE [status |-> "ok", error |-> "",
            value |-> hex2patq(secrets_combine(hexes)),
            interpolated |-> TRUE, hexshards |-> hexes]
combine(shards) ==
  LET hexes    == [i \in 1..Len(shards) |-> patq2hex(shards[i])]
      unpadded == [i \in 1..Len(shards) |-> unpad(hexes[i])]
  IN  IF \E i \in 1..Len(shards) : ~unpadded[i].ok
      THEN Threw("nonzero leading digit -- please report this as a bug!")
      ELSE LET hexshards == [i \in 1..Len(shards) |-> unpadded[i].str]
           IN  IF \E i \in 1..Len(shards) : ~shareOk(hexshards[i])
               THEN [Threw("Invalid share") EXCEPT !.interpolated = TRUE,
                                                   !.hexshards = hexshards]
               ELSE [status |-> "ok", error |-> "",
                     value |-> hex2patq(secrets_combine(hexshards)),
                     interpolated |-> TRUE, hexshards |-> hexshards]

(***************************************************************************)
(* Inputs.                                                                 *)
(***************************************************************************)
\* requested bit lengths: positive multiples of 8 on both sides of the
\* DRBG minimum
NBitsChoices == {8, 16, 184, 192, 200}

RECURSIVE SeqsUpTo(_, _)
SeqsUpTo(S, m) ==
  IF m = 0 THEN {<<>>}
  ELSE LET shorter == SeqsUpTo(S, m - 1)
       IN  shorter \cup {Append(q, b) : q \in {r \in shorter : Len(r) = m - 1}, b \in S}

AddlBytes == {15, 240}
AddlChoices == {Undefined} \cup {Buffer(b) : b \in SeqsUpTo(AddlBytes, MaxAddlLen)}

\* what crypto.rng(m) may return: m bytes, all different along the buffer
RngSeeds == {0, 90, 255}
RngOutputs(m) == {[i \in 1..m |-> (b + 77 * (i - 1)) % 256] : b \in RngSeeds}

\* what the collector may hand to its callback once it gathered m samples
SampleSeeds == {0, 1}
SampleOutputs(m) == {[i \in 1..m |-> (b * i + (i % 2)) % 256] : b \in SampleSeeds}

\* tickets handed to shard: every length up to MaxLen, with and without a
\* leading zero byte
TicketSeeds == {0, 1, 167}
TicketChoices ==
  {[i \in 1..len |-> (b + 151 * (i - 1)) % 256] : b \in TicketSeeds, len \in 1..MaxLen}

\* a string that is not @q: one syllable outside the 256 known ones
NotPatq == <<256>>

\* the coefficients the sharer may draw: for each byte, k-1 values
CoefVals == {0, 195}
CoefChoices(len, k0) == [1..len -> [1..(k0 - 1) -> CoefVals]]

\* the shards handed to combine: any non-empty selection, in any order
Orders(n0) ==
  {q \in UNION {[1..m -> 1..n0] : m \in 1..n0} :
     \A i, j \in 1..Len(q) : i # j => q[i] # q[j]}

\* a shard whose decoded hex does not start with a zero digit
Tampered(sh) == [sh EXCEPT ![1] = 16 + (sh[1] % 16)]

\* secret bytes and thresholds of the secrecy check
SecretSamples == {0, 90, 255}
SecrecyThresholds == {2, 3}

VARIABLES
  gpc,         \* where the generator invocation stands
  strategy,    \* "simple", "more" or "drbg"
  nbits,       \* requested bit length
  addl,        \* the caller's second argument
  sysbytes,    \* what crypto.rng returned
  entropy,     \* the buffer addl was combined with
  gathered,    \* samples the collector has gathered
  aux,         \* the collector: "off", "running", "delivered", "exceeded"
  samples,     \* the result the collector handed to its callback
  promise,     \* the promise built around prng.generate
  outcome,     \* what the caller gets: the return value or returned promise
  seeded,      \* whether the DRBG was constructed
  spc,         \* sharding: "start", "sharded", "failed", "combined", "observed"
  secret,      \* the ticket handed to shard
  n,           \* number of shards asked for
  k,           \* threshold asked for
  coeffs,      \* the coefficients the sharer drew
  shards,      \* what shard returned
  order,       \* which shards were picked for combine, in the order given
  tamper,      \* position of the tampered shard in that selection, 0 if none
  supplied,    \* the array handed to combine
  cres,        \* what combine did
  observed     \* the shares an onlooker holds: index |-> byte

genvars == <<gpc, strategy, nbits, addl, sysbytes, entropy, gathered, aux,
             samples, promise, outcome, seeded>>

shamirvars == <<spc, secret, n, k, coeffs, shards, order, tamper, supplied,
                cres, observed>>

vars == <<genvars, shamirvars>>

GenInit ==
  /\ gpc = "idle"
  /\ strategy = "none"
  /\ nbits = 0
  /\ addl = Undefined
  /\ sysbytes = <<>>
  /\ entropy = <<>>
  /\ gathered = 0
  /\ aux = "off"
  /\ samples = <<>>
  /\ promise = NoPromise
  /\ outcome = NoPromise
  /\ seeded = FALSE

\* gen_ticket_simple(nb, a): synchronous
CallSimple ==
  /\ gpc = "idle"
  /\ \E nb \in NBitsChoices, a \in AddlChoices :
       \E e \in RngOutputs(nbytesOf(nb)) :
         /\ strategy' = "simple"
         /\ nbits' = nb
         /\ addl' = a
         /\ sysbytes' = e
         /\ entropy' = e
         /\ outcome' = [NoPromise EXCEPT !.state = "returned",
                                         !.value = gen_ticket_simple(nb, a, e)]
  /\ gpc' = "done"
  /\ UNCHANGED <<gathered, aux, samples, promise, seeded>>
  /\ UNCHANGED shamirvars

\* gen_ticket_more(nb, a) up to the return of the pending promise
CallMore ==
  /\ gpc = "idle"
  /\ \E nb \in NBitsChoices, a \in AddlChoices :
       /\ strategy' = "more"
       /\ nbits' = nb
       /\ addl' = a
  /\ gpc' = "collecting"
  /\ aux' = "running"
  /\ promise' = Pending
  /\ outcome' = Pending
  /\ UNCHANGED <<sysbytes, entropy, gathered, samples, seeded>>
  /\ UNCHANGED shamirvars

\* gen_ticket_drbg(nb, a) up to the await
CallDrbg ==
  /\ gpc = "idle"
  /\ \E nb \in NBitsChoices, a \in AddlChoices :
       \E e \in RngOutputs(nbytesOf(nb)) :
         /\ strategy' = "drbg"
         /\ nbits' = nb
         /\ addl' = a
         /\ sysbytes' = e
  /\ gpc' = "collecting"
  /\ aux' = "running"
  /\ promise' = Pending
  /\ outcome' = Pending
  /\ UNCHANGED <<entropy, gathered, samples, seeded>>
  /\ UNCHANGED shamirvars

\* the collector gathers one more sample
Sample ==
  /\ aux = "running"
  /\ gathered < SamplesNeeded(nbits) + MaxExtra
  /\ gathered' = gathered + 1
  /\ UNCHANGED <<gpc, strategy, nbits, addl, sysbytes, entropy, aux, samples,
                 promise, outcome, seeded>>
  /\ UNCHANGED shamirvars

\* the collector gives up before it has enough samples.  index.js passes
\* prng.generate a callback that takes a result only, so nothing of the
\* invocation runs.
Exceeded ==
  /\ aux = "running"
  /\ gathered < SamplesNeeded(nbits)
  /\ aux' = "exceeded"
  /\ UNCHANGED <<gpc, strategy, nbits, addl, sysbytes, entropy, gathered,
                 samples, promise, outcome, seeded>>
  /\ UNCHANGED shamirvars

\* the callback gen_ticket_more passes to prng.generate
MoreCallback ==
  /\ strategy = "more"
  /\ aux = "running"
  /\ gathered >= SamplesNeeded(nbits)
  /\ \E result \in SampleOutputs(gathered), e \in RngOutputs(nbytesOf(nbits)) :
       LET nbytes    == nbytesOf(nbits)
           pairs     == chunk(result)
           taken     == slice(pairs, nbytes)
           more      == Array(foldPairs(taken))
           ticket    == gen_ticket_simple(nbits, more, e)
           bufticket == fromHex(patq2hex(ticket))
           bytes     == IF isBuffer(addl) THEN mix(bufticket, addl.bytes, nbytes)
                        ELSE bufticket
           settled   == reject(resolve(promise, hex2patq(toHex(bytes))),
                               "entropy generation failed")
       IN  /\ samples' = result
           /\ sysbytes' = e
           /\ entropy' = bufticket
           /\ promise' = settled
           /\ outcome' = settled
  /\ aux' = "delivered"
  /\ gpc' = "done"
  /\ UNCHANGED <<strategy, nbits, addl, gathered, seeded>>
  /\ UNCHANGED shamirvars

\* the callback gen_ticket_drbg passes to prng.generate
DrbgCallback ==
  /\ strategy = "drbg"
  /\ aux = "running"
  /\ gathered >= SamplesNeeded(nbits)
  /\ \E result \in SampleOutputs(gathered) :
       /\ samples' = result
       /\ promise' = reject(resolve(promise, result), "entropy generation failed")
  /\ aux' = "delivered"
  /\ gpc' = "resume"
  /\ UNCHANGED <<strategy, nbits, addl, sysbytes, entropy, gathered, outcome,
                 seeded>>
  /\ UNCHANGED shamirvars

\* gen_ticket_drbg after the await: build the DRBG and generate
DrbgResume ==
  /\ gpc = "resume"
  /\ promise.state = "fulfilled"
  /\ LET nbytes == nbytesOf(nbits)
         nonce  == promise.value
         pers   == IF isBuffer(addl) THEN addl.bytes ELSE <<>>
     IN  IF DRBGSeedOk(sysbytes)
         THEN /\ seeded' = TRUE
              /\ entropy' = sysbytes
              /\ outcome' = resolve(outcome,
                   hex2patq(toHex(DRBGGenerate(sysbytes, nonce, pers, nbytes))))
         ELSE /\ seeded' = FALSE
              /\ entropy' = entropy
              /\ outcome' = reject(outcome, "Not enough entropy")
  /\ gpc' = "done"
  /\ UNCHANGED <<strategy, nbits, addl, sysbytes, gathered, aux, samples,
                 promise>>
  /\ UNCHANGED shamirvars

NoResult ==
  [status |-> "none", error |-> "", value |-> <<>>,
   interpolated |-> FALSE, hexshards |-> <<>>]

ShamirInit ==
  /\ spc = "start"
  /\ secret = <<>>
  /\ n = 0
  /\ k = 0
  /\ coeffs = <<>>
  /\ shards = <<>>
  /\ order = <<>>
  /\ tamper = 0
  /\ supplied = <<>>
  /\ cres = NoResult
  /\ observed = <<>>

\* shard(t, n0, k0)
Shard ==
  /\ spc = "start"
  /\ \E t \in TicketChoices, n0 \in 2..MaxN :
       \E k0 \in 2..n0 :
         \E c \in CoefChoices(Len(t), k0) :
           /\ secret' = t
           /\ n' = n0
           /\ k' = k0
           /\ coeffs' = c
           /\ shards' = shard(t, n0, k0, c).value
  /\ spc' = "sharded"
  /\ UNCHANGED <<order, tamper, supplied, cres, observed>>
  /\ UNCHANGED genvars

\* shard called with a string that is not @q: it throws
ShardInvalid ==
  /\ spc = "start"
  /\ shard(NotPatq, 2, 2, <<>>).status = "error"
  /\ secret' = NotPatq
  /\ spc' = "failed"
  /\ UNCHANGED <<n, k, coeffs, shards, order, tamper, supplied, cres, observed>>
  /\ UNCHANGED genvars

\* combine(sel): sel is a selection of the shards, one of them possibly
\* tampered with
Combine ==
  /\ spc = "sharded"
  /\ \E q \in Orders(n) :
       \E tp \in 0..Len(q) :
         LET sel == [i \in 1..Len(q) |->
                       IF i = tp THEN Tampered(shards[q[i]]) ELSE shards[q[i]]]
         IN  /\ order' = q
             /\ tamper' = tp
             /\ supplied' = sel
             /\ cres' = combine(sel)
  /\ spc' = "combined"
  /\ UNCHANGED <<secret, n, k, coeffs, shards, observed>>
  /\ UNCHANGED genvars

\* shard of a one-byte ticket, for the secrecy check
SecShard ==
  /\ spc = "start"
  /\ \E b \in SecretSamples, k0 \in SecrecyThresholds :
       \E n0 \in k0..MaxN :
         \E c \in CoefChoices(1, k0) :
           /\ secret' = <<b>>
           /\ n' = n0
           /\ k' = k0
           /\ coeffs' = c
           /\ shards' = shard(<<b>>, n0, k0, c).value
  /\ spc' = "sharded"
  /\ UNCHANGED <<order, tamper, supplied, cres, observed>>
  /\ UNCHANGED genvars

\* the byte a shard carries for a one-byte ticket
ObservedValue(i) == shareData(unpad(patq2hex(shards[i])).str)[1]

\* an onlooker gets hold of fewer than k of the shards: their indices and
\* the byte each carries
Observe ==
  /\ spc = "sharded"
  /\ \E I \in SUBSET (1..n) :
       /\ Cardinality(I) < k
       /\ observed' = [i \in I |-> ObservedValue(i)]
  /\ spc' = "observed"
  /\ UNCHANGED <<secret, n, k, coeffs, shards, order, tamper, supplied, cres>>
  /\ UNCHANGED genvars

Next ==
  \/ CallSimple
  \/ CallMore
  \/ CallDrbg
  \/ Sample
  \/ Exceeded
  \/ MoreCallback
  \/ DrbgCallback
  \/ DrbgResume

NextShamir ==
  \/ Shard
  \/ ShardInvalid
  \/ Combine

NextSecrecy ==
  \/ SecShard
  \/ Observe

Init == GenInit /\ ShamirInit

\* ticket generation
Spec == Init /\ [][Next]_vars

\* shard and combine
SpecShamir == Init /\ [][NextShamir]_vars

\* shard, and what fewer than k shards tell
SpecSecrecy == Init /\ [][NextSecrecy]_vars

Ways(sec) ==
  Cardinality({c \in [1..(k - 1) -> RngValues] :
                 \A i \in DOMAIN observed : shareAt(sec, i, c) = observed[i]})

\* the secret bytes the count is compared across: every byte when one
\* coefficient is drawn, the samples when two are
CompareSecrets == IF k = 2 THEN Byte ELSE SecretSamples

\* C2: whatever fewer than k shards show, every secret byte accounts for it
\* with the same number of coefficient draws.
C2_Secrecy ==
  spc = "observed" =>
    LET own == Ways(secret[1])
    IN  \A t \in CompareSecrets \ {secret[1]} : Ways(t) = own

\* two of the shards of a threshold-3 sharing were observed
C2_Witness ==
  spc = "observed" /\ k = 3 /\ Cardinality(DOMAIN observed) = 2

\* C6 as stated: combine of fewer than k shards does not throw and returns a
\* well-formed ticket that differs from s.
C6_AlwaysDiffers ==
  (spc = "combined" /\ tamper = 0 /\ Len(order) < k)
    => /\ cres.status = "ok"
       /\ isValidPatq(cres.value)
       /\ cres.value # secret

\* C6 as amended: combine of fewer than k shards does not throw and returns a
\* well-formed ticket; with k-1 shards that ticket differs from s exactly
\* when the highest coefficient is nonzero at some byte.
C6_DiffersUnlessCancelled ==
  (spc = "combined" /\ tamper = 0 /\ Len(order) < k)
    => /\ cres.status = "ok"
       /\ isValidPatq(cres.value)
       /\ Len(cres.value) > 0
       /\ (Len(order) = k - 1 =>
             (cres.value # secret <=>
                \E j \in 1..Len(secret) : coeffs[j][k - 1] # 0))

\* two shards of a threshold-3 sharing combined to a wrong ticket
C6_Witness ==
  /\ spc = "combined"
  /\ tamper = 0
  /\ k = 3
  /\ Len(order) = 2
  /\ cres.status = "ok"
  /\ cres.value # secret

\* C10: a shard that decodes with a nonzero leading digit, wherever it
\* stands, makes combine throw before secrets.combine is reached; otherwise
\* exactly the leading zero digit of every shard is removed.
C10_UnpadBeforeCombine ==
  spc = "combined" =>
    LET hexes == [i \in 1..Len(supplied) |-> patq2hex(supplied[i])]
    IN  IF \E i \in 1..Len(hexes) : hexes[i][1] # 0
        THEN /\ cres.status = "error"
             /\ ~cres.interpolated
             /\ cres.value = <<>>
        ELSE /\ cres.interpolated
             /\ cres.hexshards = [i \in 1..Len(hexes) |-> Tail(hexes[i])]

\* the last of several shards was the malformed one, and combine threw
C10_Witness ==
  /\ spc = "combined"
  /\ tamper = Len(supplied)
  /\ tamper > 1
  /\ cres.status = "error"

(***************************************************************************)
(* Properties of ticket generation.                                        *)
(***************************************************************************)
\* the bytes a @q ticket encodes
TicketBytes(t) == fromHex(patq2hex(t))

Produced == outcome.state \in {"returned", "fulfilled"}

\* byte i of addl, or the neutral 0 where addl has none
AddlByte(i) ==
  IF isBuffer(addl) /\ i <= Len(addl.bytes) THEN addl.bytes[i] ELSE 0

C4_TicketLength ==
  Produced => Len(TicketBytes(outcome.value)) * 8 = nbits

\* a mixed ticket was produced with an addl longer than the ticket
C4_Witness ==
  /\ strategy = "more"
  /\ Produced
  /\ isBuffer(addl)
  /\ Len(addl.bytes) * 8 > nbits
  /\ Len(TicketBytes(outcome.value)) * 8 = nbits

\* C5: byte i of a mixed ticket is the system byte i XOR the folded
\* auxiliary byte i (samples 2i-1 and 2i, counting from 1) XOR addl byte i.
C5_MixedUsesAux ==
  (strategy = "more" /\ Produced) =>
    TicketBytes(outcome.value) =
      [i \in 1..(nbits \div 8) |->
         xor(xor(sysbytes[i], xor(samples[2 * i - 1], samples[2 * i])),
             AddlByte(i))]

\* C7: generate_drbg below 192 bits never seeds the DRBG nor produces a
\* ticket and ends rejected; from 192 bits on it seeds the DRBG and ends
\* with a ticket.
C7_DrbgMinimum ==
  strategy = "drbg" =>
    /\ nbits < DRBG_MIN_BITS =>
         /\ ~seeded
         /\ ~Produced
         /\ (gpc = "done" =>
               outcome.state = "rejected" /\ outcome.error = "Not enough entropy")
    /\ (nbits >= DRBG_MIN_BITS /\ gpc = "done") =>
         /\ seeded
         /\ outcome.state = "fulfilled"
         /\ Len(TicketBytes(outcome.value)) * 8 = nbits

\* a 184-bit request was rejected
C7_Witness ==
  /\ strategy = "drbg"
  /\ nbits < DRBG_MIN_BITS
  /\ gpc = "done"
  /\ outcome.state = "rejected"

\* C8 as stated: combining the entropy with a Buffer addl gives their XOR cut
\* to the shorter of the two.
C8_CutToShorter ==
  (strategy \in {"simple", "more"} /\ Produced /\ isBuffer(addl)) =>
    LET out == TicketBytes(outcome.value)
    IN  /\ Len(out) = Min(Len(entropy), Len(addl.bytes))
        /\ \A i \in 1..Len(out) : out[i] = xor(entropy[i], addl.bytes[i])

\* C8 as amended: the result is as long as the entropy; byte i is the XOR
\* with addl byte i where addl has one and the entropy byte otherwise, and
\* addl bytes past the entropy's end are dropped.
C8_CutToTarget ==
  (strategy \in {"simple", "more"} /\ Produced /\ isBuffer(addl)) =>
    LET out == TicketBytes(outcome.value)
    IN  /\ Len(out) = Len(entropy)
        /\ Len(entropy) * 8 = nbits
        /\ \A i \in 1..Len(out) :
             out[i] = IF i <= Len(addl.bytes) THEN xor(entropy[i], addl.bytes[i])
                      ELSE entropy[i]

\* a simple ticket was produced with a non-empty addl shorter than it
C8_Witness ==
  /\ strategy = "simple"
  /\ Produced
  /\ isBuffer(addl)
  /\ Len(addl.bytes) >= 1
  /\ Len(addl.bytes) < Len(entropy)
  /\ Len(TicketBytes(outcome.value)) = Len(entropy)

\* C9: once the collector has exceeded its bound the invocation is completed
\* with a failure.
C9_TimeoutFails ==
  aux = "exceeded" => outcome.state = "rejected"
====
